---- MODULE Spec2Model ----
(***************************************************************************)
(* Legacy PyTorch checkpoint loader (package pytorch, pytorch.go).         *)
(*                                                                         *)
(* One Load call is modelled as a state machine over the phases of         *)
(* loadLegacyFile / loadLegacyNoTar.  The generic unpickler is external:   *)
(* every value it decodes is drawn from a bounded set of Go values, and    *)
(* every PersistentLoad call it makes is drawn from a bounded set of       *)
(* persistent ids.                                                         *)
(***************************************************************************)
EXTENDS Integers, Sequences, FiniteSets, TLC

(***************************************************************************)
(* Bounds of the model.                                                    *)
(***************************************************************************)
\* persistent-reference markers the decoder meets in one object graph
MaxRefs == 2
\* entries of the decoded storage key list
MaxKeys == 2
\* bytes of the trailing payload section
MaxPayload == 3

(***************************************************************************)
(* Go values behind interface{}: a record tagged with the dynamic type.    *)
(*   i: int value, or 1 for a negative big.Int                             *)
(*   s: string value, or the name of a decoded class object                *)
(*   e: elements of a *types.Tuple, *types.List or []interface{}           *)
(*   d: base-16 digits of a *big.Int magnitude (most significant first,    *)
(*      normalised: no leading zero, <<>> for zero)                        *)
(***************************************************************************)
Val(t, i, s, e, d) == [t |-> t, i |-> i, s |-> s, e |-> e, d |-> d]
Nil == Val("nil", 0, "", <<>>, <<>>)
IntVal(n) == Val("int", n, "", <<>>, <<>>)
StrVal(x) == Val("string", 0, x, <<>>, <<>>)
Tuple(es) == Val("*types.Tuple", 0, "", es, <<>>)
List(es) == Val("*types.List", 0, "", es, <<>>)
Slice(es) == Val("[]interface{}", 0, "", es, <<>>)
BigInt(neg, digits) == Val("*big.Int", IF neg THEN 1 ELSE 0, "", <<>>, digits)
ClassObj(goType) == Val("class", 0, goType, <<>>, <<>>)

\* const hexMagicNumber, as the string of its characters
hexMagicNumber ==
  << "1","9","5","0","a","8","6","a","2","0",
     "f","9","4","6","9","c","f","c","6","c" >>
protocolVersion == 1001

\* the error values of the package and the messages of its fmt.Errorf calls
NoErr == "nil"
ErrInvalidMagicNumber == "invalid pytorch magic number"
ErrInvalidProtocolVersion == "invalid pytorch protocol version"
ErrNonEmptyTuple == "PersistentLoad: non-empty tuple espected"
ErrTypename == "PersistentLoad: cannot get typename"
ErrStorageLen == "PersistentLoad: unexpected storage data length"
ErrDataTypes == "PersistentLoad: unexpected data types"
ErrViewLen == "PersistentLoad: unexpected view metadata length"
ErrViewType == "PersistentLoad: unexpected view metadata type"
ErrSavedIdType == "Unexpected saved ID type"
ErrKeyNotFound == "storage object not found for key"
ErrKeysData == "invalid storage keys data"
ErrKey == "invalid storage key"
ErrClassNotFound == "class no found"
\* errors of the collaborators (os, archive/tar, gopickle, storage reads)
ErrOpen == "os: open failed"
ErrSeek == "os: seek failed"
ErrTarOther == "tar: other error"
ErrDecode == "gopickle: decode error"
ErrRead == "io: unexpected EOF"

(***************************************************************************)
(* pickleFindClass: the class objects the decoder can hand to the          *)
(* resolver.  The nine *StorageClass values implement                      *)
(* StorageClassInterface; RebuildTensorV2 does not.                        *)
(***************************************************************************)
pickleFindClass(module, name) ==
  IF module = "torch._utils" /\ name = "_rebuild_tensor_v2"
    THEN [obj |-> ClassObj("RebuildTensorV2"), err |-> NoErr]
  ELSE IF module = "torch" /\ name = "FloatStorage"
    THEN [obj |-> ClassObj("FloatStorageClass"), err |-> NoErr]
  ELSE IF module = "torch" /\ name = "HalfStorage"
    THEN [obj |-> ClassObj("HalfStorageClass"), err |-> NoErr]
  ELSE IF module = "torch" /\ name = "DoubleStorage"
    THEN [obj |-> ClassObj("DoubleStorageClass"), err |-> NoErr]
  ELSE IF module = "torch" /\ name = "CharStorage"
    THEN [obj |-> ClassObj("CharStorageClass"), err |-> NoErr]
  ELSE IF module = "torch" /\ name = "ShortStorage"
    THEN [obj |-> ClassObj("ShortStorageClass"), err |-> NoErr]
  ELSE IF module = "torch" /\ name = "IntStorage"
    THEN [obj |-> ClassObj("IntStorageClass"), err |-> NoErr]
  ELSE IF module = "torch" /\ name = "LongStorage"
    THEN [obj |-> ClassObj("LongStorageClass"), err |-> NoErr]
  ELSE IF module = "torch" /\ name = "ByteStorage"
    THEN [obj |-> ClassObj("ByteStorageClass"), err |-> NoErr]
  ELSE IF module = "torch" /\ name = "BoolStorage"
    THEN [obj |-> ClassObj("BoolStorageClass"), err |-> NoErr]
  ELSE [obj |-> Nil, err |-> ErrClassNotFound]

StorageClasses ==
  { "FloatStorageClass", "HalfStorageClass", "DoubleStorageClass",
    "CharStorageClass", "ShortStorageClass", "IntStorageClass",
    "LongStorageClass", "ByteStorageClass", "BoolStorageClass" }

\* v.(StorageClassInterface)
IsStorageClass(v) == v.t = "class" /\ v.s \in StorageClasses

\* bytes per element of the storage a class allocates
elementSize(class) ==
  CASE class = "FloatStorageClass" -> 4
    [] class = "HalfStorageClass" -> 2
    [] class = "DoubleStorageClass" -> 8
    [] class = "CharStorageClass" -> 1
    [] class = "ShortStorageClass" -> 2
    [] class = "IntStorageClass" -> 4
    [] class = "LongStorageClass" -> 8
    [] class = "ByteStorageClass" -> 1
    [] class = "BoolStorageClass" -> 1

(***************************************************************************)
(* big.Int Text(16): optional sign, then the lower-case base-16 digits.   *)
(***************************************************************************)
HexChars ==
  << "0","1","2","3","4","5","6","7","8","9","a","b","c","d","e","f" >>

Text16(n) ==
  (IF n.i = 1 THEN << "-" >> ELSE << >>) \o
  (IF n.d = << >> THEN << "0" >> ELSE [k \in 1..Len(n.d) |-> HexChars[n.d[k] + 1]])

\* variant: the type is checked, the digits are not
MagicOkTypeOnly(obj) == obj.t = "*big.Int"

\* readAndCheckMagicNumber's test on the decoded object
MagicOk(obj) == obj.t = "*big.Int" /\ Text16(obj) = hexMagicNumber

\* variant: any version from protocolVersion on is accepted
VersionOkAtLeast(obj) == obj.t = "int" /\ obj.i >= protocolVersion

\* readAndChecProtocolVersion's test on the decoded object
VersionOk(obj) == obj.t = "int" /\ obj.i = protocolVersion


(***************************************************************************)
(* Storages.  The heap holds the Storage instances allocated during the    *)
(* load; a storage is identified by its index (its identity).  fills       *)
(* counts the SetFromFile calls that filled it, src is the file offset     *)
(* its bytes were last read from.                                          *)
(***************************************************************************)
NoStorage == 0

\* dataType.New(size, location)
New(class, size, location) ==
  [class |-> class, size |-> size, location |-> location, fills |-> 0, src |-> -1]

\* storageObj.SetFromFile(f) with f at offset p of a file of flen bytes
SetFromFile(st, p, flen) ==
  LET need == st.size * elementSize(st.class)
  IN IF p + need <= flen
       THEN [err |-> NoErr, pos |-> p + need, n |-> need,
             st |-> [st EXCEPT !.fills = @ + 1, !.src = p]]
       ELSE [err |-> ErrRead, pos |-> flen, n |-> flen - p, st |-> st]

(***************************************************************************)
(* The PersistentLoad closure of loadLegacyNoTar, as a function of the     *)
(* registry (deserializedObjects), the heap and the saved id.              *)
(***************************************************************************)
NoPanic == "none"
PanicViewMetadata == "viewMetadata not implemented"
PanicModule == "PersistentLoad module not implemented"
PanicZip == "loadZipFile not implemented"
PanicTar == "legacy load from tar not implemented"

Ret(ret, e, pan, objs, hp) ==
  [ret |-> ret, err |-> e, panic |-> pan, objs |-> objs, heap |-> hp]

\* variant: the registry is not consulted, every record allocates
lookupOrNewAlways(objs, hp, class, rootKey, size, location) ==
  [id |-> Len(hp) + 1,
   objs |-> [k \in DOMAIN objs \cup { rootKey } |-> IF k = rootKey THEN Len(hp) + 1 ELSE objs[k]],
   heap |-> Append(hp, New(class, size, location)),
   new |-> TRUE]

\* variant: a registered storage takes the class, size and location of the
\* record that refers to it
lookupOrNewRefresh(objs, hp, class, rootKey, size, location) ==
  IF rootKey \in DOMAIN objs
    THEN [id |-> objs[rootKey], objs |-> objs,
          heap |-> [hp EXCEPT ![objs[rootKey]] =
                      [@ EXCEPT !.class = class, !.size = size,
                                !.location = location]],
          new |-> FALSE]
    ELSE [id |-> Len(hp) + 1,
          objs |-> (rootKey :> (Len(hp) + 1)) @@ objs,
          heap |-> Append(hp, New(class, size, location)),
          new |-> TRUE]

\* storage, storageExists := deserializedObjects[rootKey]; if !storageExists {...}
lookupOrNew(objs, hp, class, rootKey, size, location) ==
  IF rootKey \in DOMAIN objs
    THEN [id |-> objs[rootKey], objs |-> objs, heap |-> hp, new |-> FALSE]
    ELSE [id |-> Len(hp) + 1,
          objs |-> (rootKey :> (Len(hp) + 1)) @@ objs,
          heap |-> Append(hp, New(class, size, location)),
          new |-> TRUE]

\* switch vm := viewMetadata.(type)
viewCase(st, viewMetadata) ==
  CASE viewMetadata.t = "nil" ->
         Ret(st.id, NoErr, NoPanic, st.objs, st.heap)
    [] viewMetadata.t = "[]interface{}" ->
         IF Len(viewMetadata.e) # 3
           THEN Ret(NoStorage, ErrViewLen, NoPanic, st.objs, st.heap)
           ELSE Ret(NoStorage, NoErr, PanicViewMetadata, st.objs, st.heap)
    [] OTHER ->
         Ret(NoStorage, ErrViewType, NoPanic, st.objs, st.heap)

\* variant: only a record that is too short is rejected
storageLenTooShort(tuple) == Len(tuple.e) < 6

\* tuple.Len() != 6
storageLenBad(tuple) == Len(tuple.e) # 6

\* variant: the storage is looked up or allocated before the location is
\* checked
storageCaseLateCheck(objs, hp, tuple) ==
  IF storageLenBad(tuple)
    THEN Ret(NoStorage, ErrStorageLen, NoPanic, objs, hp)
    ELSE LET dataType == tuple.e[2]
             rootKey == tuple.e[3]
             location == tuple.e[4]
             size == tuple.e[5]
             viewMetadata == tuple.e[6]
         IN IF \/ ~IsStorageClass(dataType)
               \/ rootKey.t # "string"
               \/ size.t # "int"
              THEN Ret(NoStorage, ErrDataTypes, NoPanic, objs, hp)
              ELSE LET st == lookupOrNew(objs, hp, dataType.s, rootKey.s,
                                         size.i, location.s)
                   IN IF location.t # "string"
                        THEN Ret(NoStorage, ErrDataTypes, NoPanic, st.objs, st.heap)
                        ELSE viewCase(st, viewMetadata)

\* case "storage":
storageCase(objs, hp, tuple) ==
  IF storageLenBad(tuple)
    THEN Ret(NoStorage, ErrStorageLen, NoPanic, objs, hp)
    ELSE LET dataType == tuple.e[2]
             rootKey == tuple.e[3]
             location == tuple.e[4]
             size == tuple.e[5]
             viewMetadata == tuple.e[6]
         IN IF \/ ~IsStorageClass(dataType)
               \/ rootKey.t # "string"
               \/ location.t # "string"
               \/ size.t # "int"
              THEN Ret(NoStorage, ErrDataTypes, NoPanic, objs, hp)
              ELSE viewCase(lookupOrNew(objs, hp, dataType.s, rootKey.s,
                                        size.i, location.s),
                            viewMetadata)

\* variant: an unknown typename is handled as a storage record
defaultCaseAsStorage(objs, hp, tuple) == storageCase(objs, hp, tuple)

\* default: of switch typename
defaultCase(objs, hp, tuple) ==
  Ret(NoStorage, ErrSavedIdType, NoPanic, objs, hp)

PersistentLoad(objs, hp, savedId) ==
  IF savedId.t # "*types.Tuple" \/ Len(savedId.e) = 0
    THEN Ret(NoStorage, ErrNonEmptyTuple, NoPanic, objs, hp)
  ELSE IF savedId.e[1].t # "string"
    THEN Ret(NoStorage, ErrTypename, NoPanic, objs, hp)
  ELSE CASE savedId.e[1].s = "storage" -> storageCase(objs, hp, savedId)
         [] savedId.e[1].s = "module" ->
              Ret(NoStorage, NoErr, PanicModule, objs, hp)
         [] OTHER -> defaultCase(objs, hp, savedId)

\* variant: the keys before the first element that is not a string are kept
makeStorageKeysPrefix(obj) ==
  IF obj.t # "*types.List"
    THEN [keys |-> << >>, err |-> ErrKeysData]
    ELSE LET bad == { i \in 1..Len(obj.e) : obj.e[i].t # "string" }
             n == IF bad = { } THEN Len(obj.e)
                  ELSE (CHOOSE i \in bad : \A j \in bad : i <= j) - 1
         IN [keys |-> [i \in 1..n |-> obj.e[i].s], err |-> NoErr]

(***************************************************************************)
(* makeStorageKeys: a list of strings becomes the keys, anything else an   *)
(* error.                                                                  *)
(***************************************************************************)
makeStorageKeys(obj) ==
  IF obj.t # "*types.List"
    THEN [keys |-> << >>, err |-> ErrKeysData]
  ELSE IF \E i \in 1..Len(obj.e) : obj.e[i].t # "string"
    THEN [keys |-> << >>, err |-> ErrKey]
  ELSE [keys |-> [i \in 1..Len(obj.e) |-> obj.e[i].s], err |-> NoErr]

(***************************************************************************)
(* One iteration of the loop over storageKeys (index i, file offset p,     *)
(* file length flen).                                                      *)
(***************************************************************************)
\* variant: a key without a storage is skipped
fillKeySkipUnknown(objs, hp, key, p, flen) ==
  IF key \notin DOMAIN objs
    THEN [err |-> NoErr, heap |-> hp, pos |-> p, filled |-> FALSE,
          id |-> NoStorage, n |-> 0]
    ELSE LET r == SetFromFile(hp[objs[key]], p, flen)
         IN [err |-> r.err, heap |-> [hp EXCEPT ![objs[key]] = r.st],
             pos |-> r.pos, filled |-> r.err = NoErr, id |-> objs[key],
             n |-> r.n]

\* the body of the loop, for one key
fillKey(objs, hp, key, p, flen) ==
  IF key \notin DOMAIN objs
    THEN [err |-> ErrKeyNotFound, heap |-> hp, pos |-> p, filled |-> FALSE,
          id |-> NoStorage, n |-> 0]
    ELSE LET r == SetFromFile(hp[objs[key]], p, flen)
         IN [err |-> r.err, heap |-> [hp EXCEPT ![objs[key]] = r.st],
             pos |-> r.pos, filled |-> r.err = NoErr, id |-> objs[key],
             n |-> r.n]

\* variant: the keys are walked from the last to the first
fillStepReversed(objs, hp, keys, i, p, flen) ==
  fillKey(objs, hp, keys[Len(keys) - i + 1], p, flen)

\* variant: the i-th iteration fills the i-th allocated storage
fillStepByIndex(objs, hp, keys, i, p, flen) ==
  IF i > Len(hp)
    THEN fillKey(objs, hp, keys[i], p, flen)
    ELSE LET r == SetFromFile(hp[i], p, flen)
         IN [err |-> r.err, heap |-> [hp EXCEPT ![i] = r.st], pos |-> r.pos,
             filled |-> r.err = NoErr, id |-> i, n |-> r.n]

fillStep(objs, hp, keys, i, p, flen) == fillKey(objs, hp, keys[i], p, flen)

(***************************************************************************)
(* What the collaborators can produce: the values the decoder yields for   *)
(* the header, the persistent ids it passes to the resolver, the value it  *)
(* yields for the key list, and the encoded length of a value.             *)
(***************************************************************************)
NoVal == Val("none", 0, "", <<>>, <<>>)

\* base-16 digits of the magic number 0x1950a86a20f9469cfc6c
MagicDigits ==
  << 1, 9, 5, 0, 10, 8, 6, 10, 2, 0, 15, 9, 4, 6, 9, 12, 15, 12, 6, 12 >>
MagicNumber == BigInt(FALSE, MagicDigits)

MagicInputs ==
  { MagicNumber,
    BigInt(TRUE, MagicDigits),
    BigInt(FALSE, [MagicDigits EXCEPT ![20] = 13]),
    BigInt(FALSE, SubSeq(MagicDigits, 1, 19)),
    BigInt(FALSE, << >>),
    IntVal(protocolVersion),
    StrVal("1950a86a20f9469cfc6c"),
    Nil }

VersionInputs ==
  { IntVal(protocolVersion), IntVal(protocolVersion - 1),
    IntVal(protocolVersion + 1), IntVal(0),
    BigInt(FALSE, << 3, 14, 9 >>),
    StrVal("1001"), Nil }

RootKeys == { "0", "1" }
ElementCounts == { 1, 2 }
ByteClass == pickleFindClass("torch", "ByteStorage").obj
HalfClass == pickleFindClass("torch", "HalfStorage").obj
TensorClass == pickleFindClass("torch._utils", "_rebuild_tensor_v2").obj

StorageId(class, key, location, size, vm) ==
  Tuple(<< StrVal("storage"), class, key, location, size, vm >>)

View3 == Slice(<< StrVal("v"), IntVal(0), IntVal(1) >>)

\* well-typed storage records without view metadata
PlainStorageIds ==
  { StorageId(c, StrVal(k), StrVal("cpu"), IntVal(n), Nil) :
      c \in { ByteClass, HalfClass }, k \in RootKeys, n \in ElementCounts }

\* well-typed storage records that name another location
RelocatedIds ==
  { StorageId(ByteClass, StrVal(k), StrVal("cuda:0"), IntVal(1), Nil) :
      k \in RootKeys }

\* well-typed first five elements, every shape of view metadata
ViewStorageIds ==
  { StorageId(ByteClass, StrVal(k), StrVal("cpu"), IntVal(1), vm) :
      k \in RootKeys,
      vm \in { View3,
               Slice(<< StrVal("v"), IntVal(0) >>),
               Tuple(<< StrVal("v"), IntVal(0), IntVal(1) >>),
               IntVal(3) } }

\* storage records of the wrong length or with one element of the wrong type
BadStorageIds ==
  { Tuple(<< StrVal("storage"), ByteClass, StrVal("0"), StrVal("cpu"), IntVal(1) >>),
    Tuple(<< StrVal("storage") >>),
    Tuple(<< StrVal("storage"), ByteClass, StrVal("0"), StrVal("cpu"), IntVal(1),
             Nil, Nil >>),
    StorageId(TensorClass, StrVal("0"), StrVal("cpu"), IntVal(1), Nil),
    StorageId(ByteClass, IntVal(0), StrVal("cpu"), IntVal(1), Nil),
    StorageId(ByteClass, StrVal("0"), Nil, IntVal(1), Nil),
    StorageId(ByteClass, StrVal("0"), StrVal("cpu"), StrVal("1"), Nil),
    StorageId(ByteClass, StrVal("0"), StrVal("cpu"), StrVal("1"), View3) }

OtherIds ==
  { StrVal("storage"),
    Nil,
    Tuple(<< >>),
    Tuple(<< IntVal(0), ByteClass, StrVal("0"), StrVal("cpu"), IntVal(1), Nil >>),
    Tuple(<< Nil >>),
    Tuple(<< StrVal("Storage"), ByteClass, StrVal("0"), StrVal("cpu"), IntVal(1), Nil >>),
    Tuple(<< StrVal("tensor") >>),
    Tuple(<< StrVal("module"), StrVal("m"), StrVal("file.py"), StrVal("src") >>),
    Tuple(<< StrVal("module"), StrVal("m"), Nil, Nil >>) }

SavedIds ==
  PlainStorageIds \cup RelocatedIds \cup ViewStorageIds \cup BadStorageIds
    \cup OtherIds

KeyItems == { StrVal("0"), StrVal("1"), IntVal(0) }

RECURSIVE SeqsUpTo(_, _)
SeqsUpTo(S, n) ==
  IF n = 0 THEN { << >> }
  ELSE LET shorter == SeqsUpTo(S, n - 1)
       IN shorter \cup { Append(q, x) : q \in shorter, x \in S }

RawKeyValues ==
  { List(q) : q \in SeqsUpTo(KeyItems, MaxKeys) }
    \cup { Tuple(<< StrVal("0") >>), Nil }

\* bytes one encoded value, or the stretch between two markers, can take
EncLens == { 1, 2 }

(***************************************************************************)
(* State of one Load call.                                                 *)
(***************************************************************************)
VARIABLES
  pc,                   \* the phase Load is at
  pos,                  \* offset of the file handle f
  fileLen,              \* length of the file, known once the payload is reached
  deserializedObjects,  \* the registry: root key -> storage
  heap,                 \* storages allocated so far
  result,               \* local result of u.Load()
  storageKeys,          \* local storageKeys
  idx,                  \* index of the range loop over storageKeys
  out,                  \* what Load returned: [obj, err]
  panicMsg,             \* the panic Load ended with
  \* history of the run
  trace,                \* phases executed, in order
  magicObj,             \* first decoded value
  versionObj,           \* second decoded value
  rawKeys,              \* value decoded after the object graph
  payloadStart,         \* offset of f right after the encoded key list
  lastCall,             \* the latest resolver call: id, registry before, return
  resolved,             \* {<<root key, storage>>} returned by the resolver
  allocs,               \* root key of each New call, in order
  fillLog,              \* SetFromFile calls that filled a storage, in order
  created               \* class, size and location given to each New call

(***************************************************************************)
(* State of two Load calls running side by side (see ConcSpec): every      *)
(* local of loadLegacyNoTar once per call c, and the one Go heap.          *)
(***************************************************************************)
VARIABLES
  cpc,                  \* cpc[c]: the phase call c is at
  cobjs,                \* cobjs[c]: deserializedObjects of call c
  cheap,                \* storages allocated by either call
  ckeys,                \* ckeys[c]: storageKeys of call c
  cidx,                 \* cidx[c]: loop index of call c
  cfile,                \* cfile[c]: [pos, len] of the file handle of call c
  cout,                 \* cout[c]: what call c returned, or its panic
  ccalls,               \* ccalls[c]: resolver calls made for call c
  alone                 \* alone[c]: the same call, same inputs, run by itself

concVars == << cpc, cobjs, cheap, ckeys, cidx, cfile, cout, ccalls, alone >>

loadVars ==
  << pc, pos, fileLen, deserializedObjects, heap, result, storageKeys, idx, out,
     panicMsg, trace, magicObj, versionObj, rawKeys, payloadStart, lastCall,
     resolved, allocs, fillLog, created >>

vars == << loadVars, concVars >>

NoOut == [obj |-> "none", err |-> "none"]
NoCall == [id |-> NoVal, before |-> << >>, heapBefore |-> 0, ret |-> NoStorage,
           err |-> NoErr, panic |-> NoPanic]
EmptyRegistry == << >>

\* the two calls of the side-by-side run
Callers == { 1, 2 }
AloneInit == [objs |-> EmptyRegistry, heap |-> << >>, out |-> NoOut]

ConcInit ==
  /\ cpc = [c \in Callers |-> "Load"]
  /\ cobjs = [c \in Callers |-> EmptyRegistry]
  /\ cheap = << >>
  /\ ckeys = [c \in Callers |-> << >>]
  /\ cidx = [c \in Callers |-> 0]
  /\ cfile = [c \in Callers |-> [pos |-> 0, len |-> 0]]
  /\ cout = [c \in Callers |-> NoOut]
  /\ ccalls = [c \in Callers |-> 0]
  /\ alone = [c \in Callers |-> AloneInit]

Init ==
  /\ pc = "Load"
  /\ pos = 0
  /\ fileLen = 0
  /\ deserializedObjects = EmptyRegistry
  /\ heap = << >>
  /\ result = "nil"
  /\ storageKeys = << >>
  /\ idx = 0
  /\ out = NoOut
  /\ panicMsg = NoPanic
  /\ trace = << >>
  /\ magicObj = NoVal
  /\ versionObj = NoVal
  /\ rawKeys = NoVal
  /\ payloadStart = 0
  /\ lastCall = NoCall
  /\ resolved = { }
  /\ allocs = << >>
  /\ fillLog = << >>
  /\ created = << >>
  /\ ConcInit

\* return obj, e
Return(obj, e) ==
  /\ pc' = "returned"
  /\ out' = [obj |-> obj, err |-> e]

\* panic(msg)
Panic(msg) ==
  /\ pc' = "panicked"
  /\ panicMsg' = msg


(***************************************************************************)
(* Load: the zip probe decides between loadZipFile and loadLegacyFile.     *)
(***************************************************************************)
Load ==
  /\ pc = "Load"
  /\ \E isZip \in BOOLEAN :
       pc' = IF isZip THEN "loadZipFile" ELSE "loadLegacyFile"
  /\ trace' = Append(trace, "isZipFile")
  /\ UNCHANGED << pos, fileLen, deserializedObjects, heap, result, storageKeys,
                  idx, out, panicMsg, magicObj, versionObj, rawKeys, lastCall,
                  resolved, allocs, fillLog,
                  payloadStart >>
  /\ UNCHANGED << created, concVars >>

loadZipFile ==
  /\ pc = "loadZipFile"
  /\ Panic(PanicZip)
  /\ trace' = Append(trace, "loadZipFile")
  /\ UNCHANGED << pos, fileLen, deserializedObjects, heap, result, storageKeys,
                  idx, out, magicObj, versionObj, rawKeys, lastCall, resolved,
                  allocs, fillLog,
                  payloadStart >>
  /\ UNCHANGED << created, concVars >>

(***************************************************************************)
(* loadLegacyFile: open, probe for a tar header with tr.Next(), and on     *)
(* tar.ErrHeader rewind and go on with loadLegacyNoTar.  io.EOF leaves     *)
(* the switch only and reaches the panic; every other outcome, a nil       *)
(* error included, is returned by the default case.                        *)
(***************************************************************************)
TarOutcomes == { "tar.ErrHeader", "io.EOF", NoErr, ErrTarOther }

loadLegacyFile ==
  /\ pc = "loadLegacyFile"
  /\ \E openErr \in { NoErr, ErrOpen }, tarErr \in TarOutcomes,
        seekErr \in { NoErr, ErrSeek }, read \in EncLens :
       IF openErr # NoErr
         THEN /\ Return("nil", openErr)
              /\ trace' = Append(trace, "os.Open")
              /\ UNCHANGED << pos, panicMsg >>
       ELSE IF tarErr = "io.EOF"
         THEN /\ Panic(PanicTar)
              /\ pos' = read
              /\ trace' = trace \o << "os.Open", "tr.Next" >>
              /\ UNCHANGED out
       ELSE IF tarErr = "tar.ErrHeader"
         THEN IF seekErr # NoErr
                THEN /\ Return("nil", seekErr)
                     /\ pos' = read
                     /\ trace' = trace \o << "os.Open", "tr.Next", "f.Seek" >>
                     /\ UNCHANGED panicMsg
                ELSE /\ pc' = "magic"
                     /\ pos' = 0
                     /\ trace' = trace \o << "os.Open", "tr.Next", "f.Seek" >>
                     /\ UNCHANGED << out, panicMsg >>
       ELSE /\ Return("nil", tarErr)
            /\ pos' = read
            /\ trace' = trace \o << "os.Open", "tr.Next" >>
            /\ UNCHANGED panicMsg
  /\ UNCHANGED << fileLen, deserializedObjects, heap, result, storageKeys, idx,
                  magicObj, versionObj, rawKeys, lastCall, resolved, allocs,
                  fillLog,
                  payloadStart >>
  /\ UNCHANGED << created, concVars >>

(***************************************************************************)
(* loadLegacyNoTar, header: magic number, protocol version, sys info.      *)
(* unpickle either fails or yields one value and leaves f after it.        *)
(***************************************************************************)
readAndCheckMagicNumber ==
  /\ pc = "magic"
  /\ trace' = Append(trace, "readAndCheckMagicNumber")
  /\ \E n \in EncLens : pos' = pos + n
  /\ \E decErr \in { NoErr, ErrDecode }, obj \in MagicInputs :
       IF decErr # NoErr
         THEN Return("nil", decErr) /\ UNCHANGED magicObj
       ELSE /\ magicObj' = obj
            /\ IF ~MagicOk(obj)
                 THEN Return("nil", ErrInvalidMagicNumber)
                 ELSE pc' = "version" /\ UNCHANGED out
  /\ UNCHANGED << fileLen, deserializedObjects, heap, result, storageKeys, idx,
                  panicMsg, versionObj, rawKeys, lastCall, resolved, allocs,
                  fillLog,
                  payloadStart >>
  /\ UNCHANGED << created, concVars >>

readAndChecProtocolVersion ==
  /\ pc = "version"
  /\ trace' = Append(trace, "readAndChecProtocolVersion")
  /\ \E n \in EncLens : pos' = pos + n
  /\ \E decErr \in { NoErr, ErrDecode }, obj \in VersionInputs :
       IF decErr # NoErr
         THEN Return("nil", decErr) /\ UNCHANGED versionObj
       ELSE /\ versionObj' = obj
            /\ IF ~VersionOk(obj)
                 THEN Return("nil", ErrInvalidProtocolVersion)
                 ELSE pc' = "sysinfo" /\ UNCHANGED out
  /\ UNCHANGED << fileLen, deserializedObjects, heap, result, storageKeys, idx,
                  panicMsg, magicObj, rawKeys, lastCall, resolved, allocs,
                  fillLog,
                  payloadStart >>
  /\ UNCHANGED << created, concVars >>

unpickleSysInfo ==
  /\ pc = "sysinfo"
  /\ trace' = Append(trace, "unpickle sys info")
  /\ \E n \in EncLens : pos' = pos + n
  /\ \E decErr \in { NoErr, ErrDecode } :
       IF decErr # NoErr
         THEN Return("nil", decErr)
         ELSE pc' = "graph" /\ UNCHANGED out
  /\ UNCHANGED << fileLen, deserializedObjects, heap, result, storageKeys, idx,
                  panicMsg, magicObj, versionObj, rawKeys, lastCall, resolved,
                  allocs, fillLog,
                  payloadStart >>
  /\ UNCHANGED << created, concVars >>

(***************************************************************************)
(* u.Load(): the decoder reads the graph and calls PersistentLoad at each  *)
(* persistent-reference marker; an error of the callback is the error of   *)
(* u.Load(), a panic of the callback ends Load.                            *)
(***************************************************************************)
Calls == Len(SelectSeq(trace, LAMBDA x : x = "PersistentLoad"))

\* the decoder meets a persistent-reference marker while Load is in one of phases
PersistentLoadAt(phases) ==
  /\ pc \in phases
  /\ Calls < MaxRefs
  /\ trace' = Append(trace, "PersistentLoad")
  /\ \E n \in EncLens : pos' = pos + n
  /\ \E savedId \in SavedIds :
       LET r == PersistentLoad(deserializedObjects, heap, savedId)
       IN /\ deserializedObjects' = r.objs
          /\ heap' = r.heap
          /\ lastCall' = [id |-> savedId, before |-> deserializedObjects,
                          heapBefore |-> Len(heap), ret |-> r.ret,
                          err |-> r.err, panic |-> r.panic]
          /\ allocs' = IF Len(r.heap) > Len(heap)
                         THEN Append(allocs, savedId.e[3].s) ELSE allocs
          /\ created' = IF Len(r.heap) > Len(heap)
                          THEN Append(created, [class |-> savedId.e[2].s,
                                                size |-> savedId.e[5].i,
                                                location |-> savedId.e[4].s])
                          ELSE created
          /\ IF r.panic # NoPanic
               THEN Panic(r.panic) /\ UNCHANGED << out, resolved >>
             ELSE IF r.err # NoErr
               THEN Return("nil", r.err) /\ UNCHANGED << panicMsg, resolved >>
             ELSE /\ resolved' = resolved \cup { << savedId.e[3].s, r.ret >> }
                  /\ UNCHANGED << pc, out, panicMsg >>
  /\ UNCHANGED << fileLen, result, storageKeys, idx, magicObj, versionObj,
                  rawKeys, fillLog,
                  payloadStart >>
  /\ UNCHANGED concVars

\* variant: the key list is decoded by the unpickler that holds the resolver
PersistentLoadCallAnyPhase == PersistentLoadAt({ "graph", "keys" })

PersistentLoadCall == PersistentLoadAt({ "graph" })

\* variant: the error of u.Load() is dropped
uLoadReturnIgnoreErr ==
  /\ pc = "graph"
  /\ trace' = Append(trace, "u.Load returns")
  /\ \E n \in EncLens : pos' = pos + n
  /\ \E decErr \in { NoErr, ErrDecode } :
       /\ pc' = "keys"
       /\ result' = IF decErr = NoErr THEN "graph" ELSE "nil"
       /\ UNCHANGED out
  /\ UNCHANGED << fileLen, deserializedObjects, heap, storageKeys, idx, panicMsg,
                  magicObj, versionObj, rawKeys, lastCall, resolved, allocs,
                  fillLog, payloadStart >>
  /\ UNCHANGED << created, concVars >>

uLoadReturn ==
  /\ pc = "graph"
  /\ trace' = Append(trace, "u.Load returns")
  /\ \E n \in EncLens : pos' = pos + n
  /\ \E decErr \in { NoErr, ErrDecode } :
       IF decErr # NoErr
         THEN Return("nil", decErr) /\ UNCHANGED result
         ELSE pc' = "keys" /\ result' = "graph" /\ UNCHANGED out
  /\ UNCHANGED << fileLen, deserializedObjects, heap, storageKeys, idx, panicMsg,
                  magicObj, versionObj, rawKeys, lastCall, resolved, allocs,
                  fillLog,
                  payloadStart >>
  /\ UNCHANGED << created, concVars >>

(***************************************************************************)
(* unpickle + makeStorageKeys.  What follows the encoded key list in the   *)
(* file is the payload section, of any length up to MaxPayload.            *)
(***************************************************************************)
readStorageKeys ==
  /\ pc = "keys"
  /\ trace' = Append(trace, "makeStorageKeys")
  /\ \E n \in EncLens, payload \in 0..MaxPayload :
       /\ pos' = pos + n
       /\ payloadStart' = pos + n
       /\ fileLen' = pos + n + payload
  /\ \E decErr \in { NoErr, ErrDecode }, raw \in RawKeyValues :
       IF decErr # NoErr
         THEN Return("nil", decErr) /\ UNCHANGED << rawKeys, storageKeys, idx >>
       ELSE LET r == makeStorageKeys(raw)
            IN /\ rawKeys' = raw
               /\ IF r.err # NoErr
                    THEN Return("nil", r.err) /\ UNCHANGED << storageKeys, idx >>
                    ELSE /\ storageKeys' = r.keys
                         /\ idx' = 1
                         /\ pc' = "fill"
                         /\ UNCHANGED out
  /\ UNCHANGED << deserializedObjects, heap, result, panicMsg, magicObj,
                  versionObj, lastCall, resolved, allocs, fillLog >>
  /\ UNCHANGED << created, concVars >>

(***************************************************************************)
(* for _, key := range storageKeys { ... } ; return result, nil            *)
(***************************************************************************)
fillLoop ==
  /\ pc = "fill"
  /\ idx <= Len(storageKeys)
  /\ trace' = Append(trace, "range storageKeys")
  /\ LET r == fillStep(deserializedObjects, heap, storageKeys, idx, pos, fileLen)
     IN /\ heap' = r.heap
        /\ pos' = r.pos
        /\ fillLog' = IF r.filled
                        THEN Append(fillLog, [key |-> storageKeys[idx], id |-> r.id,
                                              start |-> pos, n |-> r.n])
                        ELSE fillLog
        /\ IF r.err # NoErr
             THEN Return("nil", r.err) /\ UNCHANGED idx
             ELSE idx' = idx + 1 /\ UNCHANGED << pc, out >>
  /\ UNCHANGED << fileLen, deserializedObjects, result, storageKeys, panicMsg,
                  magicObj, versionObj, rawKeys, lastCall, resolved, allocs,
                  payloadStart >>
  /\ UNCHANGED << created, concVars >>

returnResult ==
  /\ pc = "fill"
  /\ idx > Len(storageKeys)
  /\ Return(result, NoErr)
  /\ trace' = Append(trace, "return result")
  /\ UNCHANGED << pos, fileLen, deserializedObjects, heap, result, storageKeys,
                  idx, panicMsg, magicObj, versionObj, rawKeys, lastCall,
                  resolved, allocs, fillLog,
                  payloadStart >>
  /\ UNCHANGED << created, concVars >>

Next ==
  \/ Load
  \/ loadZipFile
  \/ loadLegacyFile
  \/ readAndCheckMagicNumber
  \/ readAndChecProtocolVersion
  \/ unpickleSysInfo
  \/ PersistentLoadCall
  \/ uLoadReturn
  \/ readStorageKeys
  \/ fillLoop
  \/ returnResult

Spec == Init /\ [][Next]_vars

TypeOK ==
  /\ pc \in { "Load", "loadZipFile", "loadLegacyFile", "magic", "version",
              "sysinfo", "graph", "keys", "fill", "returned", "panicked" }
  /\ Len(heap) = Len(allocs)
  /\ \A k \in DOMAIN deserializedObjects :
       deserializedObjects[k] \in 1..Len(heap)


(***************************************************************************)
(* Properties.                                                             *)
(***************************************************************************)
\* a resolver call that came back with a value, an error or a panic
Called == lastCall.id # NoVal
IsTuple(v) == v.t = "*types.Tuple"
HasTypename(v, name) == IsTuple(v) /\ Len(v.e) > 0 /\ v.e[1] = StrVal(name)
LastKey == lastCall.id.e[3].s
ExpectedBytes(st) == st.size * elementSize(st.class)

RECURSIVE SumBytes(_, _)
SumBytes(log, k) == IF k = 0 THEN 0 ELSE SumBytes(log, k - 1) + log[k].n

\* C1: within one load, all "storage" records with empty view metadata and
\* the same root key resolve to one Storage instance: New is called at most
\* once per root key, a record whose key is already registered returns the
\* registered instance without allocating, and a fill through the key order
\* lands in the instance every such reference holds.
C1_SameKeySameStorage ==
  /\ \A a, b \in resolved : a[1] = b[1] => a[2] = b[2]
  /\ \A i, j \in 1..Len(allocs) : allocs[i] = allocs[j] => i = j
  /\ \A a \in resolved :
       /\ a[1] \in DOMAIN deserializedObjects
       /\ deserializedObjects[a[1]] = a[2]
  /\ (Called /\ lastCall.id \in PlainStorageIds /\ LastKey \in DOMAIN lastCall.before)
       => /\ lastCall.err = NoErr
          /\ lastCall.ret = lastCall.before[LastKey]
          /\ Len(heap) = lastCall.heapBefore
  /\ \A i \in 1..Len(fillLog) : \A a \in resolved :
       a[1] = fillLog[i].key => a[2] = fillLog[i].id /\ heap[a[2]].fills > 0

\* two references to one root key, and the load filled that storage
C1_Witness ==
  /\ pc = "returned" /\ out.obj = "graph"
  /\ lastCall.id \in PlainStorageIds
  /\ LastKey \in DOMAIN lastCall.before
  /\ \E i \in 1..Len(fillLog) : fillLog[i].key = LastKey

\* C2: when every key of the key order is registered, the i-th fill targets
\* the storage registered under the i-th key, reads exactly
\* elementCount * elementSize(kind) bytes starting where the previous fill
\* stopped (the first right after the encoded key order) and leaves the file
\* position right after them.
C2_FillsInKeyOrder ==
  (/\ pc \in { "fill", "returned" }
   /\ \A i \in 1..Len(storageKeys) : storageKeys[i] \in DOMAIN deserializedObjects)
  => /\ Len(fillLog) <= Len(storageKeys)
     /\ \A i \in 1..Len(fillLog) :
          /\ fillLog[i].key = storageKeys[i]
          /\ fillLog[i].id = deserializedObjects[storageKeys[i]]
          /\ fillLog[i].n = ExpectedBytes(heap[fillLog[i].id])
          /\ fillLog[i].start = payloadStart + SumBytes(fillLog, i - 1)
     /\ (pc = "fill" => /\ Len(fillLog) = idx - 1
                        /\ pos = payloadStart + SumBytes(fillLog, Len(fillLog)))
     /\ (out.obj = "graph" =>
           /\ Len(fillLog) = Len(storageKeys)
           /\ pos = payloadStart + SumBytes(fillLog, Len(fillLog)))

\* a successful load that filled two different storages, one after the other
C2_Witness ==
  /\ pc = "returned" /\ out.obj = "graph"
  /\ Len(fillLog) >= 2
  /\ fillLog[1].id # fillLog[2].id
  /\ fillLog[2].start = fillLog[1].start + fillLog[1].n

HasUnknownKey ==
  /\ pc \in { "fill", "returned" }
  /\ rawKeys # NoVal
  /\ makeStorageKeys(rawKeys).err = NoErr
  /\ \E i \in 1..Len(storageKeys) : storageKeys[i] \notin DOMAIN deserializedObjects

FirstUnknown ==
  CHOOSE i \in 1..Len(storageKeys) :
    /\ storageKeys[i] \notin DOMAIN deserializedObjects
    /\ \A j \in 1..(i - 1) : storageKeys[j] \in DOMAIN deserializedObjects

\* C3 as stated: a key order with a key that has no registered storage makes
\* Load return the UnknownStorageKey error and no object graph.
C3_UnknownKeyAlwaysReported ==
  (HasUnknownKey /\ pc = "returned")
    => out = [obj |-> "nil", err |-> ErrKeyNotFound]

\* C3: a key order with a key that has no registered storage makes Load
\* return an error and no object graph, never a panic: the UnknownStorageKey
\* error once the loop reaches the first such key, or the read error of the
\* fill of a registered key listed before it.
C3_UnknownKeyFails ==
  HasUnknownKey =>
    /\ panicMsg = NoPanic
    /\ Len(fillLog) < FirstUnknown
    /\ pc = "fill" => idx <= FirstUnknown
    /\ pc = "returned" =>
         /\ out.obj = "nil"
         /\ \/ out.err = ErrKeyNotFound /\ Len(fillLog) = FirstUnknown - 1
            \/ out.err = ErrRead /\ Len(fillLog) < FirstUnknown - 1

\* the loop filled one storage and then met a key without a storage
C3_Witness ==
  /\ HasUnknownKey
  /\ pc = "returned"
  /\ out.err = ErrKeyNotFound
  /\ Len(fillLog) = 1

\* C4: a first decoded value that is not the big integer
\* 0x1950a86a20f9469cfc6c (not a big integer at all included) ends the load
\* with ErrInvalidMagicNumber: nothing is decoded after it, no storage is
\* allocated and the payload is not read.
C4_BadMagicStopsLoad ==
  (magicObj # NoVal /\ magicObj # MagicNumber)
    => /\ pc = "returned"
       /\ out = [obj |-> "nil", err |-> ErrInvalidMagicNumber]
       /\ trace[Len(trace)] = "readAndCheckMagicNumber"
       /\ versionObj = NoVal
       /\ rawKeys = NoVal
       /\ result = "nil"
       /\ deserializedObjects = EmptyRegistry
       /\ heap = << >>
       /\ fillLog = << >>
       /\ Calls = 0

\* the negated magic number was decoded
C4_Witness ==
  /\ magicObj = BigInt(TRUE, MagicDigits)
  /\ pc = "returned"

\* C5: after a valid magic number, a second decoded value other than the int
\* 1001 ends the load with ErrInvalidProtocolVersion, and the load gets past
\* this phase only for the int 1001.
C5_VersionMustBe1001 ==
  /\ (versionObj # NoVal /\ versionObj # IntVal(1001))
       => /\ magicObj = MagicNumber
          /\ pc = "returned"
          /\ out = [obj |-> "nil", err |-> ErrInvalidProtocolVersion]
          /\ trace[Len(trace)] = "readAndChecProtocolVersion"
  /\ pc \in { "sysinfo", "graph", "keys", "fill" } => versionObj = IntVal(1001)
  /\ (\E i \in 1..Len(trace) : trace[i] = "unpickle sys info")
       => versionObj = IntVal(1001)

\* version 1002 was decoded after a valid magic number
C5_Witness ==
  /\ magicObj = MagicNumber
  /\ versionObj = IntVal(1002)
  /\ pc = "returned"


Ended == pc \in { "returned", "panicked" }
LegacyPath == \E i \in 1..Len(trace) : trace[i] = "os.Open"
Completed == Len(trace) > 0 /\ trace[Len(trace)] = "return result"

\* C6: Load has no partial result.  A load that entered the legacy path and
\* ended either ran every phase and every fill and returned the graph with a
\* nil error, or stopped at its first failing phase and returned a nil graph
\* with a non-nil error.
C6_NoPartialResult ==
  (Ended /\ LegacyPath)
    => \/ /\ Completed
          /\ out = [obj |-> "graph", err |-> NoErr]
       \/ /\ ~Completed
          /\ pc = "returned"
          /\ out.obj = "nil"
          /\ out.err \notin { NoErr, "none" }

\* the names the design gives to the errors of the resolver
MalformedStorageRecord == { ErrStorageLen, ErrDataTypes, ErrViewLen, ErrViewType }
UnexpectedPersistentIdType == { ErrTypename, ErrSavedIdType }

\* a "storage" tuple that is not 6 long, or has an element of the wrong
\* type, or view metadata that is neither nil nor a 3-element []interface{}
MalformedRecord(v) ==
  \/ Len(v.e) # 6
  \/ ~(v.e[2].t = "class" /\ v.e[2].s \in StorageClasses)
  \/ v.e[3].t # "string"
  \/ v.e[4].t # "string"
  \/ v.e[5].t # "int"
  \/ ~(v.e[6] = Nil \/ (v.e[6].t = "[]interface{}" /\ Len(v.e[6].e) = 3))

\* C7: a "storage" persistent id whose length is not 6, or with an element
\* of the wrong type, or with view metadata that is neither empty nor a
\* 3-element record, makes the resolver return a MalformedStorageRecord error
\* (no panic), which Load returns with a nil graph.
C7_MalformedStorageRecord ==
  (Called /\ HasTypename(lastCall.id, "storage") /\ MalformedRecord(lastCall.id))
    => /\ lastCall.err \in MalformedStorageRecord
       /\ lastCall.panic = NoPanic
       /\ lastCall.ret = NoStorage
       /\ panicMsg = NoPanic
       /\ pc = "returned"
       /\ out = [obj |-> "nil", err |-> lastCall.err]

\* a "storage" tuple of 5 elements was rejected
C7_Witness ==
  /\ Called
  /\ HasTypename(lastCall.id, "storage")
  /\ Len(lastCall.id.e) = 5
  /\ out.err = ErrStorageLen

\* C8: a persistent id whose first element is neither the string "storage"
\* nor the string "module" makes the resolver return an
\* UnexpectedPersistentIdType error; nothing is allocated or registered.
C8_UnexpectedPersistentIdType ==
  (/\ Called
   /\ IsTuple(lastCall.id)
   /\ Len(lastCall.id.e) > 0
   /\ lastCall.id.e[1] \notin { StrVal("storage"), StrVal("module") })
    => /\ lastCall.err \in UnexpectedPersistentIdType
       /\ lastCall.panic = NoPanic
       /\ lastCall.ret = NoStorage
       /\ deserializedObjects = lastCall.before
       /\ Len(heap) = lastCall.heapBefore
       /\ pc = "returned"
       /\ out = [obj |-> "nil", err |-> lastCall.err]

\* an id with typename "Storage" and an unregistered key was rejected while
\* another key was registered
C8_Witness ==
  /\ Called
  /\ HasTypename(lastCall.id, "Storage")
  /\ Len(lastCall.id.e) = 6
  /\ lastCall.before # EmptyRegistry
  /\ lastCall.id.e[3].s \notin DOMAIN lastCall.before
  /\ out.err = ErrSavedIdType

SomeFilled == \E i \in 1..Len(heap) : heap[i].fills > 0 \/ heap[i].src # -1
KeysValidated ==
  /\ rawKeys.t = "*types.List"
  /\ \A i \in 1..Len(rawKeys.e) : rawKeys.e[i].t = "string"
  /\ storageKeys = [i \in 1..Len(rawKeys.e) |-> rawKeys.e[i].s]
Position(name) == CHOOSE i \in 1..Len(trace) : trace[i] = name
Ran(name) == \E i \in 1..Len(trace) : trace[i] = name

\* C9: no storage is filled before the object graph is decoded.  Every fill
\* happens after u.Load() returned the graph without error and after the key
\* order was decoded and validated; the resolver only allocates and
\* registers, and is not called again once the graph is decoded.
C9_FillAfterGraph ==
  /\ (SomeFilled \/ fillLog # << >>)
       => /\ result = "graph"
          /\ KeysValidated
          /\ Ran("u.Load returns") /\ Ran("makeStorageKeys")
          /\ Position("u.Load returns") < Position("makeStorageKeys")
          /\ Position("makeStorageKeys") < Position("range storageKeys")
          /\ \A i \in 1..Len(trace) :
               trace[i] = "PersistentLoad" => i < Position("u.Load returns")
  /\ pc \in { "Load", "loadZipFile", "loadLegacyFile", "magic", "version",
              "sysinfo", "graph", "keys" }
       => ~SomeFilled /\ fillLog = << >>
  /\ (Called /\ lastCall.heapBefore < Len(heap) /\ pc = "graph")
       => heap[Len(heap)].fills = 0

\* a storage was allocated by the resolver and later filled
C9_Witness ==
  /\ SomeFilled
  /\ fillLog # << >>
  /\ Called
  /\ lastCall.heapBefore < Len(heap)

\* C10: no registered storage is filled more than once during a load,
\* whatever the decoded key order (a key listed twice included).
C10_FilledOnce ==
  \A i \in 1..Len(heap) : heap[i].fills <= 1


\* C11: the class, element count and location of a registered storage are
\* those of the first record that carried its root key, after any sequence
\* of resolver calls: a later record with the same key and another class,
\* count or location changes nothing, and an entry of the registry is never
\* replaced or removed.
C11_AttributesFixed ==
  /\ Len(created) = Len(heap)
  /\ \A i \in 1..Len(heap) :
       /\ heap[i].class = created[i].class
       /\ heap[i].size = created[i].size
       /\ heap[i].location = created[i].location
  /\ \A i \in 1..Len(allocs) :
       /\ allocs[i] \in DOMAIN deserializedObjects
       /\ deserializedObjects[allocs[i]] = i
  /\ (/\ Called
      /\ lastCall.id \in PlainStorageIds \cup RelocatedIds
      /\ LastKey \in DOMAIN lastCall.before)
       => deserializedObjects = lastCall.before

\* a record named a registered key with another class, count and location
C11_Witness ==
  /\ Called
  /\ lastCall.id \in PlainStorageIds \cup RelocatedIds
  /\ LastKey \in DOMAIN lastCall.before
  /\ lastCall.err = NoErr
  /\ heap[lastCall.ret].class # lastCall.id.e[2].s
  /\ heap[lastCall.ret].size # lastCall.id.e[5].i
  /\ heap[lastCall.ret].location # lastCall.id.e[4].s

\* C12: a "storage" record with 3-element view metadata resolves to a
\* Storage View (created at the first reference to its view key, the same
\* instance afterwards): the resolver returns a value, without error.
C12_ViewResolved ==
  (Called /\ lastCall.id \in ViewStorageIds /\ lastCall.id.e[6] = View3)
    => /\ lastCall.panic = NoPanic
       /\ lastCall.err = NoErr
       /\ lastCall.ret # NoStorage

\* C13: a "module" persistent id resolves to the first element of its tuple,
\* with or without provenance fields, and leaves the registry as it was.
C13_ModuleResolved ==
  (Called /\ HasTypename(lastCall.id, "module"))
    => /\ lastCall.panic = NoPanic
       /\ lastCall.err = NoErr
       /\ deserializedObjects = lastCall.before

\* C14: for a zip archive Load returns an error (UnsupportedContainerFormat)
\* and no graph, without entering the legacy path; for any other file Load
\* takes the legacy path.
C14_ZipUnsupported ==
  /\ Ran("loadZipFile")
       => /\ ~LegacyPath
          /\ panicMsg = NoPanic
          /\ (Ended => pc = "returned" /\ out.obj = "nil"
                         /\ out.err \notin { NoErr, "none" })
  /\ (Ended /\ ~Ran("loadZipFile")) => LegacyPath

\* tr.Next() found a tar header: the default case returned its nil error
TarRecognized ==
  /\ pc = "returned"
  /\ out = [obj |-> "nil", err |-> NoErr]
  /\ trace[Len(trace)] = "tr.Next"

\* C16: whenever the tar probe does not find a tar header, whatever it
\* reports, the file is rewound to offset 0 and the header validation
\* starts there.
C16_AlwaysRewinds ==
  (Ran("tr.Next") /\ ~TarRecognized)
    => /\ Ran("f.Seek")
       /\ panicMsg # PanicTar
       /\ (trace[Len(trace)] = "f.Seek" /\ pc = "magic" => pos = 0)

Rank(name) ==
  CASE name = "isZipFile" -> 1
    [] name = "loadZipFile" -> 2
    [] name = "os.Open" -> 2
    [] name = "tr.Next" -> 3
    [] name = "f.Seek" -> 4
    [] name = "readAndCheckMagicNumber" -> 5
    [] name = "readAndChecProtocolVersion" -> 6
    [] name = "unpickle sys info" -> 7
    [] name = "PersistentLoad" -> 8
    [] name = "u.Load returns" -> 9
    [] name = "makeStorageKeys" -> 10
    [] name = "range storageKeys" -> 11
    [] name = "return result" -> 12

\* the phases run so far are in the one order of loadLegacyNoTar, none
\* skipped, each started after the one before it succeeded
PhasesInOrder ==
  /\ \A i \in 1..(Len(trace) - 1) :
       LET a == Rank(trace[i])
           b == Rank(trace[i + 1])
       IN \/ b = a + 1
          \/ a = b /\ a \in { 8, 11 }
          \/ a = 7 /\ b = 9
          \/ a = 10 /\ b = 12
  /\ pc = "version" => magicObj = MagicNumber
  /\ pc = "sysinfo" => versionObj = IntVal(1001)
  /\ pc = "graph" => Ran("unpickle sys info") /\ ~Ran("u.Load returns")
  /\ pc = "keys" => result = "graph" /\ ~Ran("makeStorageKeys")
  /\ pc = "fill" => KeysValidated /\ result = "graph"
  /\ Calls > 0 => Called
  /\ Called => Calls > 0

\* one step of the load changes the registry only if it is a resolver call
\* made during the graph decode
RegistryStep ==
  (deserializedObjects' # deserializedObjects \/ Len(heap') # Len(heap))
    => /\ pc = "graph"
       /\ trace' = Append(trace, "PersistentLoad")

\* C17: the phases of a legacy load run in one fixed order (magic, protocol
\* version, sys info, object graph, key order, fills), each after the
\* previous one succeeded; the resolver is called, and the registry grows,
\* only during the graph decode, never after it has returned.
C17_PhasesInOrder == [](PhasesInOrder) /\ [][RegistryStep]_vars

\* a load that resolved two references, filled a storage and returned
C17_Witness ==
  /\ Completed
  /\ Calls >= 2
  /\ fillLog # << >>

\* a "storage" tuple that is not 6 long or whose class, root key, location
\* or element count has the wrong type
RejectedByChecks(v) ==
  \/ Len(v.e) # 6
  \/ ~(v.e[2].t = "class" /\ v.e[2].s \in StorageClasses)
  \/ v.e[3].t # "string"
  \/ v.e[4].t # "string"
  \/ v.e[5].t # "int"

\* C18: a "storage" record rejected for its length or for the type of its
\* class, root key, location or element count leaves the registry as it was
\* before the call: nothing is allocated, nothing is registered.
C18_RejectedRecordNoEffect ==
  (Called /\ HasTypename(lastCall.id, "storage") /\ RejectedByChecks(lastCall.id))
    => /\ lastCall.err \in { ErrStorageLen, ErrDataTypes }
       /\ deserializedObjects = lastCall.before
       /\ Len(heap) = lastCall.heapBefore
       /\ Len(allocs) = lastCall.heapBefore

\* a record with a nil location for a key not yet registered was rejected
\* while another key was registered
C18_Witness ==
  /\ Called
  /\ lastCall.id = StorageId(ByteClass, StrVal("0"), Nil, IntVal(1), Nil)
  /\ lastCall.before # EmptyRegistry
  /\ "0" \notin DOMAIN lastCall.before
  /\ lastCall.err = ErrDataTypes

Listed(k) == \E i \in 1..Len(storageKeys) : storageKeys[i] = k

\* C19: a successful load has filled exactly the storages whose keys are in
\* the key order: a registered storage whose key is not listed is never
\* filled and no bytes are read for it, and Load still returns the graph
\* with a nil error.
C19_FilledAreListed ==
  /\ \A k \in DOMAIN deserializedObjects :
       ~Listed(k) => /\ heap[deserializedObjects[k]].fills = 0
                     /\ heap[deserializedObjects[k]].src = -1
  /\ out.obj = "graph"
       => /\ out.err = NoErr
          /\ \A k \in DOMAIN deserializedObjects :
               heap[deserializedObjects[k]].fills > 0 <=> Listed(k)
          /\ { fillLog[i].id : i \in 1..Len(fillLog) }
               = { deserializedObjects[storageKeys[i]] : i \in 1..Len(storageKeys) }
          /\ pos = payloadStart + SumBytes(fillLog, Len(fillLog))

\* a load returned the graph with one storage filled and another, registered
\* but not listed, left unfilled
C19_Witness ==
  /\ out = [obj |-> "graph", err |-> NoErr]
  /\ fillLog # << >>
  /\ \E k \in DOMAIN deserializedObjects : ~Listed(k)

\* C20: the key order is validated as a whole before any payload byte is
\* read: when the value decoded after the graph is not a list, or one of its
\* elements is not a string, Load returns the error before the first fill
\* and no storage has been filled.
C20_KeysValidatedFirst ==
  (/\ rawKeys # NoVal
   /\ \/ rawKeys.t # "*types.List"
      \/ \E i \in 1..Len(rawKeys.e) : rawKeys.e[i].t # "string")
    => /\ pc = "returned"
       /\ out.obj = "nil"
       /\ out.err \in { ErrKeysData, ErrKey }
       /\ fillLog = << >>
       /\ ~SomeFilled
       /\ pos = payloadStart
       /\ trace[Len(trace)] = "makeStorageKeys"

\* the key list named a registered key and then held an int
C20_Witness ==
  /\ rawKeys = List(<< StrVal("0"), IntVal(0) >>)
  /\ "0" \in DOMAIN deserializedObjects
  /\ fileLen > payloadStart
  /\ out.err = ErrKey


(***************************************************************************)
(* Two Load calls side by side.  Each call c runs the steps of             *)
(* loadLegacyNoTar on its own locals (registry, key list, loop index, file *)
(* handle); the storages either call allocates live in the one Go heap.    *)
(* alone[c] is the same call fed the same inputs with no other call        *)
(* around: its own registry and its own heap.                              *)
(***************************************************************************)
\* persistent-reference markers per call in the side-by-side run
MaxConcRefs == 2

ConcIds ==
  { StorageId(ByteClass, StrVal(k), StrVal("cpu"), IntVal(1), Nil) : k \in RootKeys }
    \cup { StorageId(HalfClass, StrVal("0"), StrVal("cpu"), IntVal(1), Nil),
           Tuple(<< StrVal("tensor") >>),
           Tuple(<< StrVal("module"), StrVal("m"), Nil, Nil >>) }

ConcKeyValues ==
  { List(<< StrVal("0") >>),
    List(<< StrVal("0"), StrVal("1") >>),
    List(<< StrVal("1"), StrVal("0") >>),
    Nil }

\* bytes of payload in the file of a call
ConcPayloads == { 1, 3 }

\* variant: the registry is one package-level map, the one of the first call
registryOfShared(regs, c) == regs[1]

\* deserializedObjects as seen by call c: a local of that call
registryOf(regs, c) == regs[c]

ConcEnd(c, obj, e, state) ==
  /\ cpc' = [cpc EXCEPT ![c] = state]
  /\ cout' = [cout EXCEPT ![c] = [obj |-> obj, err |-> e]]

\* Load up to the sys info: either the call gets to the graph decode or it
\* returns the error of the phase that failed
ConcHeader(c) ==
  /\ cpc[c] = "Load"
  /\ \E e \in { NoErr, ErrInvalidMagicNumber } :
       /\ cfile' = [cfile EXCEPT ![c].pos = Len(<< "magic", "version", "sys info" >>)]
       /\ IF e # NoErr
            THEN /\ ConcEnd(c, "nil", e, "returned")
                 /\ alone' = [alone EXCEPT ![c].out = [obj |-> "nil", err |-> e]]
            ELSE /\ cpc' = [cpc EXCEPT ![c] = "graph"]
                 /\ UNCHANGED << cout, alone >>
  /\ UNCHANGED << cobjs, cheap, ckeys, cidx, ccalls >>
  /\ UNCHANGED loadVars

\* the decoder of call c meets a persistent-reference marker
ConcResolve(c) ==
  /\ cpc[c] = "graph"
  /\ ccalls[c] < MaxConcRefs
  /\ ccalls' = [ccalls EXCEPT ![c] = @ + 1]
  /\ \E savedId \in ConcIds :
       LET r == PersistentLoad(registryOf(cobjs, c), cheap, savedId)
           a == PersistentLoad(alone[c].objs, alone[c].heap, savedId)
           aOut == IF a.panic # NoPanic THEN [obj |-> "none", err |-> a.panic]
                   ELSE IF a.err # NoErr THEN [obj |-> "nil", err |-> a.err]
                   ELSE alone[c].out
       IN /\ cobjs' = [cobjs EXCEPT ![c] = r.objs]
          /\ cheap' = r.heap
          /\ alone' = [alone EXCEPT ![c] = [objs |-> a.objs, heap |-> a.heap,
                                            out |-> aOut]]
          /\ IF r.panic # NoPanic
               THEN ConcEnd(c, "none", r.panic, "panicked")
             ELSE IF r.err # NoErr
               THEN ConcEnd(c, "nil", r.err, "returned")
             ELSE UNCHANGED << cpc, cout >>
  /\ UNCHANGED << ckeys, cidx, cfile >>
  /\ UNCHANGED loadVars

\* u.Load() of call c returns, then the key list is decoded and checked
ConcKeys(c) ==
  /\ cpc[c] = "graph"
  /\ \E raw \in ConcKeyValues, payload \in ConcPayloads :
       LET r == makeStorageKeys(raw)
       IN /\ cfile' = [cfile EXCEPT ![c].pos = @ + 1,
                                    ![c].len = cfile[c].pos + 1 + payload]
          /\ IF r.err # NoErr
               THEN /\ ConcEnd(c, "nil", r.err, "returned")
                    /\ alone' = [alone EXCEPT ![c].out = [obj |-> "nil", err |-> r.err]]
                    /\ UNCHANGED << ckeys, cidx >>
               ELSE /\ ckeys' = [ckeys EXCEPT ![c] = r.keys]
                    /\ cidx' = [cidx EXCEPT ![c] = 1]
                    /\ cpc' = [cpc EXCEPT ![c] = "fill"]
                    /\ UNCHANGED << cout, alone >>
  /\ UNCHANGED << cobjs, cheap, ccalls >>
  /\ UNCHANGED loadVars

\* one iteration of the fill loop of call c
ConcFill(c) ==
  /\ cpc[c] = "fill"
  /\ cidx[c] <= Len(ckeys[c])
  /\ LET r == fillStep(registryOf(cobjs, c), cheap, ckeys[c], cidx[c],
                       cfile[c].pos, cfile[c].len)
         a == IF alone[c].out = NoOut
                THEN fillStep(alone[c].objs, alone[c].heap, ckeys[c], cidx[c],
                              cfile[c].pos, cfile[c].len)
                ELSE [err |-> NoErr, heap |-> alone[c].heap]
     IN /\ cheap' = r.heap
        /\ cfile' = [cfile EXCEPT ![c].pos = r.pos]
        /\ alone' = [alone EXCEPT
                       ![c].heap = a.heap,
                       ![c].out = IF alone[c].out = NoOut /\ a.err # NoErr
                                    THEN [obj |-> "nil", err |-> a.err] ELSE @]
        /\ IF r.err # NoErr
             THEN ConcEnd(c, "nil", r.err, "returned") /\ UNCHANGED cidx
             ELSE cidx' = [cidx EXCEPT ![c] = @ + 1] /\ UNCHANGED << cpc, cout >>
  /\ UNCHANGED << cobjs, ckeys, ccalls >>
  /\ UNCHANGED loadVars

\* return result, nil of call c
ConcReturn(c) ==
  /\ cpc[c] = "fill"
  /\ cidx[c] > Len(ckeys[c])
  /\ ConcEnd(c, "graph", NoErr, "returned")
  /\ alone' = [alone EXCEPT ![c].out = IF @ = NoOut
                                         THEN [obj |-> "graph", err |-> NoErr] ELSE @]
  /\ UNCHANGED << cobjs, cheap, ckeys, cidx, cfile, ccalls >>
  /\ UNCHANGED loadVars

ConcNext ==
  \E c \in Callers :
    \/ ConcHeader(c)
    \/ ConcResolve(c)
    \/ ConcKeys(c)
    \/ ConcFill(c)
    \/ ConcReturn(c)

ConcSpec == Init /\ [][ConcNext]_vars

ConcDone(c) == cpc[c] \in { "returned", "panicked" }

\* C15: two Load calls share no state under any interleaving of their
\* steps: no storage is registered in both registries, so one root key used
\* by both calls maps to two storages, and every call has the registry, the
\* storage contents, the result and the error it has when it runs alone.
C15_CallsAreIndependent ==
  /\ \A c, d \in Callers : c # d =>
       \A k \in DOMAIN cobjs[c] : \A j \in DOMAIN cobjs[d] :
         cobjs[c][k] # cobjs[d][j]
  /\ \A c \in Callers :
       /\ DOMAIN cobjs[c] = DOMAIN alone[c].objs
       /\ \A k \in DOMAIN cobjs[c] :
            cheap[cobjs[c][k]] = alone[c].heap[alone[c].objs[k]]
       /\ cout[c] = alone[c].out

\* both calls registered root key "0", with allocations that alternate
\* between the calls, filled it and returned their graphs
C15_Witness ==
  /\ \A c \in Callers :
       /\ cout[c] = [obj |-> "graph", err |-> NoErr]
       /\ "0" \in DOMAIN cobjs[c]
       /\ cheap[cobjs[c]["0"]].fills > 0
  /\ "1" \in DOMAIN cobjs[1]
  /\ cobjs[1]["0"] < cobjs[2]["0"]
  /\ cobjs[2]["0"] < cobjs[1]["1"]
  /\ cheap[cobjs[1]["0"]].class # cheap[cobjs[2]["0"]].class

====
